---- MODULE Spec2Model ----
(***************************************************************************)
(* Model of the react-to-static-html plugin (src/unnamed/part_002): the    *)
(* source route table, the layout resolver, page/layout/shell composition, *)
(* the two build-pipeline variants (variant 1: lines 73-302, variant 2:    *)
(* lines 383-569), and request resolution against the built output under a *)
(* host-owned build coordinator.                                           *)
(*                                                                         *)
(* Paths are sequences of segments; a file is a record [dir, stem, ext].   *)
(* A pathname of a route table is the sequence of its segments ("/" is the *)
(* empty sequence).                                                        *)
(***************************************************************************)
EXTENDS Integers, Sequences, FiniteSets, TLC

VARIABLES
    variant,      \* which of the two plugin versions is installed (1 or 2)
    tree,         \* the files found under cwd/srcDir
    shellPath,    \* _props.shellPath, relative to cwd
    otherFiles,   \* source files that exist outside cwd/srcDir (absolute)
    failing,      \* source files whose module throws when imported or rendered
    entrypoints,  \* result of the last buildConfig() call
    loaded,       \* entry -> result of build.onLoad for that entry
    assetExts,    \* extensions of the non-page assets the bundle emits
    builder,      \* whether the host's builder object exists (builder?.)
    slots,        \* how many requests the host has in flight at most
    urls,         \* the pathnames clients ask for
    buildState,   \* the builder's state: "idle" or "building"
    bundlePc,     \* "none", "bundling" (bundler running), "written" (outputs written)
    afterBuildPc, \* afterBuild hook of the pass: "none", "due", "copied"
    outputs,      \* builder.outputs: the artifacts of the last bundle
    disk,         \* the files below cwd/outDir
    fileRouter,   \* << >> for null, else << routes of the output router >>
    mainPc,       \* serverStart.main: "init", "awaitBuild", "ready", "done"
    rebuild,      \* whether a pass after the startup build has been started
    reqs          \* request id -> state of that router.request call

\* ------------------------------------------------------------------ paths

Cwd == <<"proj">>
SrcDir == <<"src", "pages">>
OutDir == <<"out">>

File(d, s, e) == [dir |-> d, stem |-> s, ext |-> e]

\* path.join(cwd, srcDir, p) for a srcDir-relative file p
JoinSrc(p) == File(Cwd \o SrcDir \o p.dir, p.stem, p.ext)

\* path.join(cwd, shellPath)
ShellFile == File(Cwd \o shellPath.dir, shellPath.stem, shellPath.ext)

IsUnder(d, root) ==
    /\ Len(d) >= Len(root)
    /\ SubSeq(d, 1, Len(root)) = root

\* String.prototype.endsWith("layout.tsx") / ("layout.jsx") on a file path:
\* the extension is the given one and the stem ends with the letters "layout".
StemsEndingInLayout == {"layout", "mylayout"}

EndsWithLayout(f, e) == f.ext = e /\ f.stem \in StemsEndingInLayout

IsLayoutPath(f) == EndsWithLayout(f, "tsx") \/ EndsWithLayout(f, "jsx")

\* A file that uses the reserved layout filename (layout.tsx / layout.jsx).
IsLayoutFile(f) == f.stem = "layout" /\ f.ext \in {"tsx", "jsx"}

\* Positions at which sub occurs in d as a contiguous run of segments.
Occurrences(d, sub) ==
    { i \in 1..(Len(d) - Len(sub) + 1) : SubSeq(d, i, i + Len(sub) - 1) = sub }

Max(S) == CHOOSE x \in S : \A y \in S : y <= x

\* filePath.split(srcDir).pop(): what follows the last occurrence of srcDir
\* in the path (the whole path when srcDir does not occur in it).
SplitPop(f, sub) ==
    IF Occurrences(f.dir, sub) = {}
    THEN f
    ELSE LET i == Max(Occurrences(f.dir, sub))
         IN  File(SubSeq(f.dir, i + Len(sub), Len(f.dir)), f.stem, f.ext)

\* ----------------------------------------------------- Bun.FileSystemRouter

\* A segment of the form [name] matches any single request segment.
IsDynamic(seg) == seg = "[id]"

\* nextjs-style pathname of a file below the router's directory: one segment
\* per directory, the file's stem last, an index file standing for its directory.
RoutePathname(f, root) ==
    LET rel == SubSeq(f.dir, Len(root) + 1, Len(f.dir))
    IN  IF f.stem = "index" THEN rel ELSE Append(rel, f.stem)

\* routes of new Bun.FileSystemRouter({dir, style: "nextjs", fileExtensions})
RouterRoutes(root, files, exts) ==
    { [pathname |-> RoutePathname(f, root), filePath |-> f] :
        f \in { g \in files : IsUnder(g.dir, root) /\ g.ext \in exts } }

PatternMatches(pat, q) ==
    /\ Len(pat) = Len(q)
    /\ \A i \in 1..Len(pat) : IsDynamic(pat[i]) \/ pat[i] = q[i]

HasDynamic(pat) == \E i \in 1..Len(pat) : IsDynamic(pat[i])

\* router.match(q): exact routes win over dynamic ones; <<>> when nothing matches,
\* otherwise the one-element sequence holding the matched file.
Match(routes, q) ==
    LET exact == { r \in routes : ~HasDynamic(r.pathname) /\ r.pathname = q }
        dyn   == { r \in routes : HasDynamic(r.pathname) /\ PatternMatches(r.pathname, q) }
    IN  IF exact # {} THEN << (CHOOSE r \in exact : TRUE).filePath >>
        ELSE IF dyn # {} THEN << (CHOOSE r \in dyn : TRUE).filePath >>
        ELSE << >>

\* the files the source scan sees, as absolute paths
SrcFiles == { JoinSrc(p) : p \in tree }

\* srcFileRouter.routes
srcFileRouter == RouterRoutes(Cwd \o SrcDir, SrcFiles, {"jsx", "tsx"})

\* --------------------------------------------------------- layout resolver

\* LayoutLoop with a match put in front of the list instead of pushed at its end
RECURSIVE LayoutLoopUnshift(_, _, _)
LayoutLoopUnshift(paths, currentPathname, relatedLayouts) ==
    IF paths = << >>
    THEN relatedLayouts
    ELSE LET testPathname == Append(currentPathname, Head(paths))
             matched      == Match(srcFileRouter, Append(testPathname, "layout"))
         IN  LayoutLoopUnshift(Tail(paths), testPathname, matched \o relatedLayouts)

\* the loop of getRelatedLayoutsMatchForPathname: one probe per prefix of the
\* pathname's segments, shortest first; a match is pushed, a miss is skipped.
RECURSIVE LayoutLoop(_, _, _)
LayoutLoop(paths, currentPathname, relatedLayouts) ==
    IF paths = << >>
    THEN relatedLayouts
    ELSE LET testPathname     == Append(currentPathname, Head(paths))
             layoutPathToTest == Append(testPathname, "layout")
             matched          == Match(srcFileRouter, layoutPathToTest)
         IN  LayoutLoop(Tail(paths), testPathname, relatedLayouts \o matched)

\* getRelatedLayoutsMatchForPathname(pathname): the matched files, in push order
getRelatedLayoutsMatchForPathname(pathname) ==
    LET testBasePath == Match(srcFileRouter, <<"layout">>)
    IN  LayoutLoop(pathname, << >>, testBasePath)

\* ------------------------------------------------------------ composition

\* The element a module's default export yields when given children
\* (<< >> stands for "no children").
Apply(file, children) == << file, children >>

NoChildren == << >>

\* Reverse with the .reverse() call left out
ReverseOmitted(s) == s

RECURSIVE Reverse(_)
Reverse(s) == IF s = << >> THEN << >> ELSE Append(Reverse(Tail(s)), Head(s))

\* layouts.reduce((Prev, Curr) => Curr({children: Prev}), seed), and likewise the
\* for-await loop of variant 2 that wraps currentElement once per layout
RECURSIVE Reduce(_, _)
Reduce(layouts, prev) ==
    IF layouts = << >>
    THEN prev
    ELSE Reduce(Tail(layouts), Apply(Head(layouts), prev))

\* await import(path) and the call of its default export: the file exists and
\* its module does not throw
Exists(f) == f \in (SrcFiles \cup otherFiles) \ failing

\* every module of a layout list was imported
AllExist(layouts) == \A i \in 1..Len(layouts) : Exists(layouts[i])

\* Object.entries(srcFileRouter.routes).find(([pathname, filePath]) => filePath == path)
PathnameOfFile(f) ==
    (CHOOSE r \in srcFileRouter : r.filePath = f).pathname

\* toPrettyPath(path): drop the last segment (the filename); "/" when nothing is left
toPrettyPath(p) == p.dir

LoadError == [loader |-> "error", pathname |-> << >>, layouts |-> << >>,
              path |-> << >>, contents |-> << >>]

EmptyJs == [loader |-> "js", pathname |-> << >>, layouts |-> << >>,
            path |-> << >>, contents |-> << >>]

\* RenderWithShell with the composed element rendered without the shell
RenderWithoutShell(pathname, layouts, path, composed) ==
    [loader |-> "html", pathname |-> pathname, layouts |-> layouts,
     path |-> path, contents |-> composed]

\* renderToString(Shell({children: composed})) returned with loader "html"
RenderWithShell(pathname, layouts, path, composed) ==
    IF ~Exists(ShellFile)
    THEN [loader |-> "error", pathname |-> pathname, layouts |-> layouts,
          path |-> path, contents |-> composed]
    ELSE [loader |-> "html", pathname |-> pathname, layouts |-> layouts,
          path |-> path, contents |-> Apply(ShellFile, composed)]

\* variant 1: build.onLoad for a tsx/jsx file under cwd/srcDir
OnLoad1(argsPath) ==
    IF IsLayoutPath(argsPath)
    THEN EmptyJs
    ELSE IF ~Exists(argsPath)
    THEN LoadError
    ELSE LET pathname == PathnameOfFile(argsPath)
             related  == getRelatedLayoutsMatchForPathname(pathname)
             layouts  == Reverse(related)
             PageWrappedInLayouts == Reduce(layouts, Apply(argsPath, NoChildren))
         IN  IF ~AllExist(layouts)
             THEN LoadError
             ELSE RenderWithShell(pathname, related, << >>, PageWrappedInLayouts)

\* variant 2: build.onLoad in the "src-page" namespace
OnLoad2(argsPath) ==
    LET realPath == JoinSrc(argsPath)
    IN  IF ~Exists(realPath)
        THEN LoadError
        ELSE LET pathname   == PathnameOfFile(realPath)
                 related    == getRelatedLayoutsMatchForPathname(pathname)
                 layouts    == Reverse(related)
                 prettyPath == toPrettyPath(argsPath)
                 currentElement == Reduce(layouts, Apply(realPath, NoChildren))
             IN  IF ~AllExist(layouts)
                 THEN LoadError
                 ELSE RenderWithShell(pathname, related, << prettyPath >>,
                                      currentElement)

\* ------------------------------------------------------------- buildConfig

Normalizer == File(<<"_normalize_">>, "normalizer", "ts")

\* variant 1: every value of srcFileRouter.routes, plus the normalizer entry
Entrypoints1 ==
    { [path |-> r.filePath, entrypoint |-> FALSE] : r \in srcFileRouter }
        \cup { [path |-> Normalizer, entrypoint |-> FALSE] }

\* Entrypoints2 with the .filter(...) call left out
Entrypoints2Unfiltered ==
    { [path |-> SplitPop(r.filePath, SrcDir), entrypoint |-> TRUE] : r \in srcFileRouter }

\* variant 2: the values whose path does not end in layout.tsx / layout.jsx,
\* cut after srcDir and tagged "?entrypoint=true"
Entrypoints2 ==
    { [path |-> SplitPop(f, SrcDir), entrypoint |-> TRUE] :
        f \in { r.filePath : r \in { x \in srcFileRouter : ~IsLayoutPath(x.filePath) } } }

buildConfig == IF variant = 1 THEN Entrypoints1 ELSE Entrypoints2

\* ThrowOnError with the build configured to throw on a build error
ThrowOnErrorSet == TRUE

\* buildConfig's `throw: false`: a failed transform does not reject the build
ThrowOnError == FALSE

\* what the bundler gets back for one entrypoint: the onResolve/onLoad pair
\* whose filter accepts it
LoadEntry(e) ==
    IF variant = 1
    THEN IF e.path = Normalizer THEN EmptyJs ELSE OnLoad1(e.path)
    ELSE OnLoad2(e.path)

\* ------------------------------------------------------------ bundler

\* where the bundler writes the artifact of an entrypoint: below outDir, at the
\* entrypoint's path relative to the bundle root (cwd in variant 1, where the
\* normalizer entry pins the root; the root of the virtual paths in variant 2)
OutputPath(e, loader) ==
    LET rel == IF IsUnder(e.path.dir, Cwd)
               THEN SubSeq(e.path.dir, Len(Cwd) + 1, Len(e.path.dir))
               ELSE e.path.dir
    IN  File(Cwd \o OutDir \o rel, e.path.stem, loader)

\* the artifacts of one bundle: one per entrypoint that loaded, plus the assets
BundleOutputs ==
    IF ThrowOnError /\ \E e \in buildConfig : LoadEntry(e).loader = "error"
    THEN {}
    ELSE { OutputPath(e, LoadEntry(e).loader) :
             e \in { x \in buildConfig : LoadEntry(x).loader # "error" } }
             \cup { File(Cwd \o OutDir, "asset", x) : x \in assetExts }

\* createFileRouter(): a router over the html files below cwd/outDir
createFileRouter == << RouterRoutes(Cwd \o OutDir, disk, {"html"}) >>

\* Reload creating the router when there is none yet
ReloadOrCreate(router) == createFileRouter

\* fileRouter?.reload()
Reload(router) == IF router = << >> THEN << >> ELSE createFileRouter

\* AfterBuildCopies with the temporary router scanning all of outDir
AfterBuildCopiesOfOutDir ==
    { File(Cwd \o OutDir \o r.pathname, r.filePath.stem, r.filePath.ext) :
        r \in RouterRoutes(Cwd \o OutDir, disk, {"html"}) }

\* variant 1 afterBuild: every html route below outDir/srcDir is copied to
\* outDir/<pathname>/<its file name>
AfterBuildCopies ==
    { File(Cwd \o OutDir \o r.pathname, r.filePath.stem, r.filePath.ext) :
        r \in RouterRoutes(Cwd \o OutDir \o SrcDir, disk, {"html"}) }

\* ------------------------------------------------------- request resolver

\* filePathToMimeType with the fall-through case "jpg" -> "jpeg" broken
filePathToMimeTypeNoJpeg(f) ==
    CASE f.ext = "html" -> "text/html"
      [] f.ext = "js"   -> "application/javascript"
      [] f.ext = "css"  -> "text/css"
      [] f.ext = "json" -> "application/json"
      [] f.ext = "png"  -> "image/png"
      [] f.ext = "jpg"  -> "image/jpeg"
      [] f.ext = "svg"  -> "image/svg+xml"
      [] OTHER -> "application/octet-stream"

\* filePathToMimeType(filePath): by the text after the last "."
filePathToMimeType(f) ==
    CASE f.ext = "html" -> "text/html"
      [] f.ext = "js"   -> "application/javascript"
      [] f.ext = "css"  -> "text/css"
      [] f.ext = "json" -> "application/json"
      [] f.ext = "png"  -> "image/png"
      [] f.ext \in {"jpg", "jpeg"} -> "image/jpeg"
      [] f.ext = "svg"  -> "image/svg+xml"
      [] OTHER -> "application/octet-stream"

\* A request URL pathname is a record [dir, stem, ext]: "/" has an empty stem,
\* "/about" an empty ext.
Url(d, s, e) == [dir |-> d, stem |-> s, ext |-> e]

\* the segments of req.URL.pathname, as the route table sees them
UrlSegments(u) ==
    IF u.stem = "" THEN u.dir
    ELSE IF u.ext = "" THEN Append(u.dir, u.stem)
    ELSE Append(u.dir, u.stem \o "." \o u.ext)

\* join(cwd, outDir, pathname)
UrlFilePath(u) == File(Cwd \o OutDir \o u.dir, u.stem, u.ext)

\* fileRouter?.match(pathname)
RouterMatch(router, u) ==
    IF router = << >> THEN << >> ELSE Match(router[1], UrlSegments(u))

\* builder?.outputs?.find((out) => out.path === filePath)
FindOutput(u) ==
    IF builder THEN { o \in outputs : o = UrlFilePath(u) } ELSE {}

NoResponse == << >>

HtmlResponse(file) ==
    << [body |-> file, streamed |-> TRUE, contentType |-> "text/html"] >>

FallbackResponse(file) ==
    << [body |-> file,
        streamed |-> (filePathToMimeType(file) = "text/html"),
        contentType |-> filePathToMimeType(file)] >>

UpstreamResponse ==
    << [body |-> File(<< >>, "upstream", ""), streamed |-> FALSE,
        contentType |-> "text/plain"] >>

NewRequest ==
    [pc |-> "new", url |-> Url(<< >>, "", ""), response |-> NoResponse,
     preventLog |-> FALSE, waited |-> FALSE, table |-> << >>, sets |-> 0]

\* Resolved with req.preventLog() called in the route-match branch too
ResolvedPreventLogOnMatch(q, router) ==
    LET match == RouterMatch(router, q.url)
        found == FindOutput(q.url)
    IN  IF match # << >>
        THEN [q EXCEPT !.pc = "done", !.table = router, !.preventLog = TRUE,
                       !.sets = @ + 1,
                       !.response = HtmlResponse(match[1])]
        ELSE IF found = {}
        THEN [q EXCEPT !.pc = "done", !.table = router]
        ELSE [q EXCEPT !.pc = "done", !.table = router, !.preventLog = TRUE,
                       !.sets = @ + 1,
                       !.response = FallbackResponse(CHOOSE o \in found : TRUE)]

\* Resolved with req.preventLog() called before the `if (!file) return`
ResolvedPreventLogEarly(q, router) ==
    LET match == RouterMatch(router, q.url)
        found == FindOutput(q.url)
    IN  IF match # << >>
        THEN [q EXCEPT !.pc = "done", !.table = router,
                       !.sets = @ + 1,
                       !.response = HtmlResponse(match[1])]
        ELSE IF found = {}
        THEN [q EXCEPT !.pc = "done", !.table = router, !.preventLog = TRUE]
        ELSE [q EXCEPT !.pc = "done", !.table = router, !.preventLog = TRUE,
                       !.sets = @ + 1,
                       !.response = FallbackResponse(CHOOSE o \in found : TRUE)]

\* Resolved with variant 2 setting file.stream() as the response before it
\* awaits file.arrayBuffer() for a non-html output
ResolvedStreamsThenBuffers(q, router) ==
    LET match == RouterMatch(router, q.url)
        found == FindOutput(q.url)
    IN  IF match # << >>
        THEN [q EXCEPT !.pc = "done", !.table = router, !.sets = @ + 1,
                       !.response = HtmlResponse(match[1])]
        ELSE IF found = {}
        THEN [q EXCEPT !.pc = "done", !.table = router]
        ELSE LET file == CHOOSE o \in found : TRUE
             IN  IF variant = 2 /\ filePathToMimeType(file) # "text/html"
                 THEN [q EXCEPT !.pc = "buffering", !.table = router,
                                !.preventLog = TRUE, !.sets = @ + 1,
                                !.response = HtmlResponse(file)]
                 ELSE [q EXCEPT !.pc = "done", !.table = router,
                                !.preventLog = TRUE, !.sets = @ + 1,
                                !.response = FallbackResponse(file)]

\* lines 280-299 / 542-566: the request after the wait, run against `router`
Resolved(q, router) ==
    LET match == RouterMatch(router, q.url)
        found == FindOutput(q.url)
    IN  IF match # << >>
        THEN [q EXCEPT !.pc = "done", !.table = router,
                       !.sets = @ + 1,
                       !.response = HtmlResponse(match[1])]
        ELSE IF found = {}
        THEN [q EXCEPT !.pc = "done", !.table = router]
        ELSE LET file == CHOOSE o \in found : TRUE
             IN  IF variant = 2 /\ filePathToMimeType(file) # "text/html"
                 THEN [q EXCEPT !.pc = "buffering", !.table = router,
                                !.preventLog = TRUE]
                 ELSE [q EXCEPT !.pc = "done", !.table = router,
                                !.preventLog = TRUE,
                                !.sets = @ + 1,
                                !.response = FallbackResponse(file)]

\* ------------------------------------------------------------ build inputs

MaxFiles == 3

SrcUniverse ==
    { File(<< >>, "index", "tsx"),
      File(<< >>, "layout", "tsx"),
      File(<<"about">>, "index", "tsx"),
      File(<<"about">>, "layout", "jsx"),
      File(<<"about">>, "team", "tsx"),
      File(<< >>, "[id]", "tsx"),
      File(<< >>, "mylayout", "tsx"),
      File(SrcDir, "index", "tsx") }

ShellInside == File(SrcDir, "shell", "tsx")
ShellOutside == File(<<"src">>, "shell", "tsx")

Trees == { t \in SUBSET (SrcUniverse \cup {File(<< >>, "shell", "tsx")}) :
             Cardinality(t) <= MaxFiles }

\* how many source modules throw at most
MaxFailing == 1

MaxReq == 2

Requests == 1..MaxReq

config == << variant, tree, shellPath, otherFiles, failing, assetExts, builder,
            slots, urls >>

serveVars == << buildState, bundlePc, afterBuildPc, outputs, disk, fileRouter,
               mainPc, rebuild, reqs >>

vars == << config, entrypoints, loaded, serveVars >>

\* the state right after reactToHtmlPlugin(_props) returned
Constructed ==
    /\ entrypoints = {}
    /\ loaded = {}
    /\ buildState = "idle"
    /\ bundlePc = "none"
    /\ afterBuildPc = "none"
    /\ outputs = {}
    /\ disk = {}
    /\ fileRouter = << >>
    /\ mainPc = "init"
    /\ rebuild = FALSE
    /\ reqs = [r \in Requests |-> NewRequest]

InitBuild ==
    /\ variant \in {1, 2}
    /\ tree \in Trees
    /\ shellPath \in {ShellInside, ShellOutside}
    /\ otherFiles \in SUBSET { File(Cwd \o <<"src">>, "shell", "tsx") }
    /\ failing \in { S \in SUBSET SrcFiles : Cardinality(S) <= MaxFailing }
    /\ assetExts = {}
    /\ builder = TRUE
    /\ slots = 0
    /\ urls = {}
    /\ Constructed

\* the host asks for the build configuration
BuildConfigCall ==
    /\ entrypoints' = buildConfig
    /\ loaded' = {}
    /\ UNCHANGED << config, serveVars >>

\* the bundler loads one entrypoint it has not loaded yet
OnLoadCall(e) ==
    /\ e \in entrypoints
    /\ ~ \E l \in loaded : l.entry = e
    /\ loaded' = loaded \cup { [entry |-> e, result |-> LoadEntry(e)] }
    /\ UNCHANGED << config, entrypoints, serveVars >>

NextBuild ==
    \/ BuildConfigCall
    \/ \E e \in entrypoints : OnLoadCall(e)

SpecBuild == InitBuild /\ [][NextBuild]_vars

\* -------------------------------------------------- serving specification

SrcIndex == File(<< >>, "index", "tsx")
SrcLayout == File(<< >>, "layout", "tsx")
SrcAbout == File(<<"about">>, "index", "tsx")

\* the source trees served
SrcDynamic == File(<< >>, "[id]", "tsx")

ServeTrees == { {SrcIndex}, {SrcIndex, SrcLayout, SrcAbout}, {SrcIndex, SrcDynamic} }

\* the extensions of the content-type table, and one that is not in it
AssetExts == {"html", "js", "css", "json", "png", "jpg", "jpeg", "svg", "wasm"}

\* pathnames: "/", "/about", "/missing", the path of the index page's artifact
\* as the bundler wrote it, and the paths of the assets
UrlRoot == Url(<< >>, "", "")
UrlAbout == Url(<< >>, "about", "")
UrlMissing == Url(<< >>, "missing", "")
UrlIndexArtifact == Url(IF variant = 1 THEN SrcDir ELSE << >>, "index", "html")
UrlAssets == { Url(<< >>, "asset", x) : x \in assetExts }

InitServe ==
    /\ variant \in {1, 2}
    /\ tree \in ServeTrees
    /\ shellPath = ShellOutside
    /\ otherFiles = { File(Cwd \o <<"src">>, "shell", "tsx") }
    /\ Constructed

\* concurrent requests for a page and for an asset
Init ==
    /\ InitServe
    /\ failing = {}
    /\ builder = TRUE
    /\ assetExts = {"css"}
    /\ slots = MaxReq
    /\ urls = {UrlRoot} \cup UrlAssets

\* one request at a time, every asset kind
InitResolve ==
    /\ InitServe
    /\ failing \in { S \in SUBSET (SrcFiles \ {JoinSrc(SrcIndex)}) :
                      Cardinality(S) <= MaxFailing }
    /\ builder \in BOOLEAN
    /\ \E x \in AssetExts : assetExts = {x}
    /\ slots = 1
    /\ urls = {UrlRoot, UrlAbout, UrlMissing, UrlIndexArtifact} \cup UrlAssets

\* builder.build() starts a pass: the host asks buildConfig() and the state
\* becomes "building"
StartPass ==
    /\ buildState' = "building"
    /\ bundlePc' = "bundling"
    /\ entrypoints' = buildConfig
    /\ loaded' = {}

\* serverStart.main up to its await (lines 267-268 / 529-530)
MainStart ==
    /\ mainPc = "init"
    /\ IF builder
       THEN /\ buildState = "idle"
            /\ StartPass
            /\ mainPc' = "awaitBuild"
       ELSE /\ mainPc' = "ready"
            /\ UNCHANGED << buildState, bundlePc, entrypoints, loaded >>
    /\ UNCHANGED << config, rebuild, afterBuildPc, outputs, disk, fileRouter, reqs >>

\* MainContinue with the assignment of line 269 / 531 left to afterBuild
MainContinueNoAssign ==
    /\ mainPc = "ready"
    /\ mainPc' = "done"
    /\ UNCHANGED << config, rebuild, entrypoints, loaded, buildState, bundlePc,
                    afterBuildPc, outputs, disk, fileRouter, reqs >>

\* serverStart.main after its await (line 269 / 531)
MainContinue ==
    /\ mainPc = "ready"
    /\ fileRouter' = createFileRouter
    /\ mainPc' = "done"
    /\ UNCHANGED << config, rebuild, entrypoints, loaded, buildState, bundlePc,
                    afterBuildPc, outputs, disk, reqs >>

\* HostBuild with the coordinator accepting a build request while it is building
HostBuildWhileBuilding ==
    /\ builder
    /\ mainPc = "done"
    /\ afterBuildPc = "none"
    /\ StartPass
    /\ rebuild' = TRUE
    /\ UNCHANGED << config, afterBuildPc, outputs, disk, fileRouter, mainPc, reqs >>

\* the host starts a later build (a rebuild) once the server is up
HostBuild ==
    /\ builder
    /\ mainPc = "done"
    /\ buildState = "idle"
    /\ afterBuildPc = "none"
    /\ StartPass
    /\ rebuild' = TRUE
    /\ UNCHANGED << config, afterBuildPc, outputs, disk, fileRouter, mainPc, reqs >>

\* the bundler loads every entrypoint and writes the artifacts
Bundle ==
    /\ bundlePc = "bundling"
    /\ loaded' = { [entry |-> e, result |-> LoadEntry(e)] : e \in entrypoints }
    /\ outputs' = BundleOutputs
    /\ disk' = disk \cup BundleOutputs
    /\ bundlePc' = "written"
    /\ afterBuildPc' = "due"
    /\ UNCHANGED << config, rebuild, entrypoints, buildState, fileRouter, mainPc, reqs >>

\* variant 1 afterBuild, lines 238-261: scan outDir/srcDir and copy
AfterBuildCopy ==
    /\ variant = 1
    /\ afterBuildPc = "due"
    /\ disk' = disk \cup AfterBuildCopies
    /\ afterBuildPc' = "copied"
    /\ UNCHANGED << config, rebuild, entrypoints, loaded, buildState, bundlePc, outputs,
                    fileRouter, mainPc, reqs >>

\* afterBuild's last statement, line 263 / 525
AfterBuildAssign ==
    /\ afterBuildPc = IF variant = 1 THEN "copied" ELSE "due"
    /\ fileRouter' = createFileRouter
    /\ afterBuildPc' = "none"
    /\ UNCHANGED << config, rebuild, entrypoints, loaded, buildState, bundlePc, outputs,
                    disk, mainPc, reqs >>

\* the builder finishes the pass: the state returns to idle and everything that
\* awaits the build (builder.build() in main, awaitBuildFinish() in requests)
\* becomes ready to run
BuildIdle ==
    /\ bundlePc = "written"
    /\ buildState' = "idle"
    /\ bundlePc' = "none"
    /\ mainPc' = IF mainPc = "awaitBuild" THEN "ready" ELSE mainPc
    /\ reqs' = [r \in Requests |->
                  IF reqs[r].pc = "waiting"
                  THEN [reqs[r] EXCEPT !.pc = "released"]
                  ELSE reqs[r]]
    /\ UNCHANGED << config, rebuild, entrypoints, loaded, afterBuildPc, outputs, disk,
                    fileRouter >>

\* EntryRouter with fileRouter?.reload() run before the isResponseSetted() check
EntryRouterReloadFirst(responseSetted) == Reload(fileRouter)

\* fileRouter after lines 274-275 / 536-537: untouched when the response is
\* already set (early return), reloaded otherwise
EntryRouter(responseSetted) ==
    IF responseSetted THEN fileRouter ELSE Reload(fileRouter)

\* router.request(req) from its first line to its first suspension or its end
RequestStart(r, u, responseSetted) ==
    /\ mainPc # "init"
    /\ r <= slots
    /\ reqs[r].pc = "new"
    /\ IF responseSetted
       THEN /\ reqs' = [reqs EXCEPT ![r] =
                          [@ EXCEPT !.pc = "done", !.url = u,
                                    !.response = UpstreamResponse]]
            /\ fileRouter' = EntryRouter(responseSetted)
       ELSE /\ fileRouter' = EntryRouter(responseSetted)
            /\ reqs' = [reqs EXCEPT ![r] =
                          IF builder /\ buildState = "building"
                          THEN [@ EXCEPT !.pc = "waiting", !.url = u, !.waited = TRUE]
                          ELSE Resolved([@ EXCEPT !.url = u], Reload(fileRouter))]
    /\ UNCHANGED << config, rebuild, entrypoints, loaded, buildState, bundlePc,
                    afterBuildPc, outputs, disk, mainPc >>

\* RequestResume checking isBuilding() again and suspending again on a new build
RequestResumeRecheck(r) ==
    /\ reqs[r].pc = "released"
    /\ reqs' = [reqs EXCEPT ![r] =
                  IF buildState = "building"
                  THEN [@ EXCEPT !.pc = "waiting"]
                  ELSE Resolved(@, fileRouter)]
    /\ UNCHANGED << config, rebuild, entrypoints, loaded, buildState, bundlePc,
                    afterBuildPc, outputs, disk, fileRouter, mainPc >>

\* the request resumes after await builder.awaitBuildFinish()
RequestResume(r) ==
    /\ reqs[r].pc = "released"
    /\ reqs' = [reqs EXCEPT ![r] = Resolved(@, fileRouter)]
    /\ UNCHANGED << config, rebuild, entrypoints, loaded, buildState, bundlePc,
                    afterBuildPc, outputs, disk, fileRouter, mainPc >>

\* variant 2: the request resumes after await file.arrayBuffer() and sets the response
RequestBuffered(r) ==
    /\ reqs[r].pc = "buffering"
    /\ reqs' = [reqs EXCEPT ![r] =
                  [@ EXCEPT !.pc = "done",
                            !.sets = @ + 1,
                            !.response = FallbackResponse(UrlFilePath(reqs[r].url))]]
    /\ UNCHANGED << config, rebuild, entrypoints, loaded, buildState, bundlePc,
                    afterBuildPc, outputs, disk, fileRouter, mainPc >>

\* the host is done with a request object; the slot serves the next request
RequestEnd(r) ==
    /\ reqs[r].pc = "done"
    /\ reqs' = [reqs EXCEPT ![r] = NewRequest]
    /\ UNCHANGED << config, rebuild, entrypoints, loaded, buildState, bundlePc,
                    afterBuildPc, outputs, disk, fileRouter, mainPc >>

Next ==
    \/ MainStart
    \/ MainContinue
    \/ HostBuild
    \/ Bundle
    \/ AfterBuildCopy
    \/ AfterBuildAssign
    \/ BuildIdle
    \/ \E r \in Requests, u \in urls, responseSetted \in BOOLEAN :
          RequestStart(r, u, responseSetted)
    \/ \E r \in Requests : RequestResume(r)
    \/ \E r \in Requests : RequestBuffered(r)
    \/ \E r \in Requests : RequestEnd(r)

Spec == Init /\ [][Next]_vars

SpecResolve == InitResolve /\ [][Next]_vars

\* concurrent requests for an asset, under the scheduling of the event loop: a
\* started bundle finishes, a started pass completes, and a continuation whose
\* promise has resolved is run
InitFair ==
    /\ InitServe
    /\ tree = {SrcIndex}
    /\ failing = {}
    /\ builder = TRUE
    /\ assetExts = {"css"}
    /\ slots = MaxReq
    /\ urls = UrlAssets

Fairness ==
    /\ WF_vars(Bundle)
    /\ WF_vars(BuildIdle)
    /\ \A r \in Requests : WF_vars(RequestResume(r))
    /\ \A r \in Requests : WF_vars(RequestBuffered(r))

SpecFair == InitFair /\ [][Next]_vars /\ Fairness

\* ------------------------------------------------ claims on the build side

\* a route of the source table whose file is not a layout file
PageRoutes == { r \in srcFileRouter : ~IsLayoutFile(r.filePath) }

\* L1(L2(...Ln(x)...)) for the root-first chain <<L1, ..., Ln>>
RECURSIVE Nest(_, _)
Nest(chain, x) ==
    IF chain = << >> THEN x ELSE Apply(Head(chain), Nest(Tail(chain), x))

\* the onLoad results that rendered an element for route r
RenderedFor(r) ==
    { l.result : l \in { x \in loaded : x.result.loader = "html"
                                        /\ x.result.pathname = r.pathname } }

\* C1: for every page route with root-first layout chain L1..Ln, the element the
\* build renders is Shell(L1(L2(...Ln(page)...))), in both variants.
C1_NestingOrder ==
    \A r \in PageRoutes : \A res \in RenderedFor(r) :
        res.contents =
            Apply(ShellFile,
                  Nest(getRelatedLayoutsMatchForPathname(r.pathname),
                       Apply(r.filePath, NoChildren)))

C1_Witness ==
    \E r \in PageRoutes : \E res \in RenderedFor(r) :
        /\ Len(getRelatedLayoutsMatchForPathname(r.pathname)) = 2
        /\ variant = 2

\* the probes of the resolver for pathname P, root first: probe i looks for a
\* layout below the first i-1 segments of P
Probe(P, i) == Match(srcFileRouter, Append(SubSeq(P, 1, i - 1), "layout"))

Hits(P) == { i \in 1..(Len(P) + 1) : Probe(P, i) # << >> }

Rank(P, i) == Cardinality({ j \in Hits(P) : j <= i })

\* C2: the chain returned for P lists the matched layouts root first, then by
\* growing prefix; a probe that finds nothing adds no element; no match, no element.
C2_RootToLeafOrder ==
    \A l \in loaded : l.result.loader = "html" =>
        LET P == l.result.pathname
            chain == l.result.layouts
        IN  /\ Len(chain) = Cardinality(Hits(P))
            /\ \A i \in Hits(P) : chain[Rank(P, i)] = Probe(P, i)[1]

C2_Witness ==
    \E l \in loaded :
        /\ l.result.loader = "html"
        /\ Len(l.result.pathname) = 2
        /\ Hits(l.result.pathname) = {1, 2}
        /\ Len(l.result.layouts) = 2

EntryFile(e) == IF e.entrypoint THEN JoinSrc(e.path) ELSE e.path

C6_NoLayoutOrShellEntrypoint ==
    \A e \in entrypoints : ~IsLayoutFile(EntryFile(e)) /\ EntryFile(e) # ShellFile

\* C7: a page with an empty layout chain is rendered as exactly Shell(page).
C7_EmptyChain ==
    \A r \in PageRoutes : \A res \in RenderedFor(r) :
        getRelatedLayoutsMatchForPathname(r.pathname) = << >> =>
            res.contents = << ShellFile, << r.filePath, << >> >> >>

C7_Witness ==
    \E r \in PageRoutes : \E res \in RenderedFor(r) :
        /\ getRelatedLayoutsMatchForPathname(r.pathname) = << >>
        /\ Len(r.pathname) = 2

\* ---------------------------------------------- claims on the serving side

\* the request r has run its route match (line 280 / 542)
PastMatch(r) ==
    /\ reqs[r].pc \in {"buffering", "done"}
    /\ reqs[r].response # UpstreamResponse

C8_RouteMatchFirst ==
    \A r \in Requests : PastMatch(r) =>
        LET q == reqs[r]
            match == RouterMatch(q.table, q.url)
        IN  /\ match # << >> =>
                /\ q.pc = "done"
                /\ q.response = << [body |-> match[1], streamed |-> TRUE,
                                    contentType |-> "text/html"] >>
                /\ ~q.preventLog
            /\ q.preventLog => match = << >>

C8_Witness ==
    \E r \in Requests :
        /\ PastMatch(r)
        /\ reqs[r].url = UrlAbout
        /\ reqs[r].response # NoResponse
        /\ RouterMatch(reqs[r].table, reqs[r].url) # << >>
        /\ SrcAbout \in tree

\* the content-type table of the interface section
ContentTypeTable ==
    { <<"html", "text/html">>, <<"js", "application/javascript">>,
      <<"css", "text/css">>, <<"json", "application/json">>,
      <<"png", "image/png">>, <<"jpg", "image/jpeg">>, <<"jpeg", "image/jpeg">>,
      <<"svg", "image/svg+xml">> }

ContentTypeFor(ext) ==
    IF \E p \in ContentTypeTable : p[1] = ext
    THEN (CHOOSE p \in ContentTypeTable : p[1] = ext)[2]
    ELSE "application/octet-stream"

\* C9: when the route match fails, the response is a build output only if that
\* output's path is exactly join(cwd, outDir, pathname), with the Content-Type
\* the extension table gives for it.
C9_FallbackExactPathAndType ==
    \A r \in Requests :
        (/\ PastMatch(r)
         /\ reqs[r].pc = "done"
         /\ RouterMatch(reqs[r].table, reqs[r].url) = << >>
         /\ reqs[r].response # NoResponse)
        => /\ reqs[r].response[1].body = UrlFilePath(reqs[r].url)
           /\ reqs[r].response[1].body \in outputs
           /\ reqs[r].response[1].contentType
                 = ContentTypeFor(reqs[r].response[1].body.ext)

C9_Witness ==
    \E r \in Requests :
        /\ PastMatch(r)
        /\ reqs[r].pc = "done"
        /\ RouterMatch(reqs[r].table, reqs[r].url) = << >>
        /\ reqs[r].response # NoResponse
        /\ reqs[r].response[1].body.ext = "jpeg"
        /\ reqs[r].response[1].contentType = "image/jpeg"

\* C10: a pathname that matches neither the output route table nor a build
\* output leaves the request untouched: the call ends, no response, no header,
\* no preventLog; also with no output table yet or no builder.
C10_MissLeavesRequestUntouched ==
    \A r \in Requests :
        (/\ PastMatch(r)
         /\ RouterMatch(reqs[r].table, reqs[r].url) = << >>
         /\ FindOutput(reqs[r].url) = {})
        => /\ reqs[r].pc = "done"
           /\ reqs[r].response = NoResponse
           /\ ~reqs[r].preventLog

C10_Witness ==
    \E r \in Requests :
        /\ PastMatch(r)
        /\ reqs[r].url = UrlMissing
        /\ reqs[r].table = << >>
        /\ ~builder
        /\ reqs[r].response = NoResponse

\* a request that arrived with its response already set by an upstream handler
\* takes its one step from "new" in this transition
UpstreamStep(r) ==
    /\ reqs[r].pc = "new"
    /\ reqs'[r].pc # "new"
    /\ reqs'[r].response = UpstreamResponse

\* C11: when an upstream handler already set the response, router.request is a
\* no-op: the output route table is not reloaded, the request neither waits on
\* the build nor looks an artifact up, and the response stays the upstream one.
C11_NoOpWhenResponseSet ==
    [][\A r \in Requests : UpstreamStep(r) =>
          /\ fileRouter' = fileRouter
          /\ buildState' = buildState
          /\ reqs'[r].pc = "done"
          /\ ~reqs'[r].waited
          /\ ~reqs'[r].preventLog
          /\ reqs'[r].table = << >>]_vars

\* such a request has ended while a reload would have changed the table
C11_Witness ==
    \E r \in Requests :
        /\ reqs[r].pc = "done"
        /\ reqs[r].response = UpstreamResponse
        /\ fileRouter # << >>
        /\ fileRouter # createFileRouter

\* the bundler of a build pass is launched in this transition
PassStarts == bundlePc # "bundling" /\ bundlePc' = "bundling"

C14_ShellFailureIsFatal ==
    ~Exists(ShellFile) => \A l \in loaded : l.result.contents = << >>

\* a build pass and its afterBuild hook have completed, every route rendered,
\* no passthrough asset is an html file, and serverStart.main is through
BuildCompleted ==
    /\ mainPc = "done"
    /\ "html" \notin assetExts
    /\ buildState = "idle"
    /\ afterBuildPc = "none"
    /\ loaded # {}
    /\ \A l \in loaded : l.result.loader # "error"
    /\ fileRouter = createFileRouter

\* C15 as stated: after a completed build, every page route has exactly one html
\* artifact and exactly one pathname in the output route table (so the table's
\* pathnames are the page routes' pathnames, one route each), and no layout or
\* shell file has an artifact that is a route of the output table.
C15_OneArtifactPerPage ==
    BuildCompleted =>
        /\ { o.pathname : o \in fileRouter[1] } = { r.pathname : r \in PageRoutes }
        /\ Cardinality(fileRouter[1]) = Cardinality(PageRoutes)
        /\ \A o \in fileRouter[1] :
              o.filePath.stem \notin {"layout", ShellFile.stem}

\* request r runs a piece of router.request in this transition (leaving
\* "waiting" is the builder releasing it, not a step of the request)
RequestStep(r) == reqs'[r] # reqs[r] /\ reqs[r].pc # "waiting"

\* C16 as stated: router.request only reads the output route table and the build
\* state; both are unchanged by every step of a request.
C16_RequestOnlyReads ==
    [][\A r \in Requests : RequestStep(r) =>
          /\ fileRouter' = fileRouter
          /\ buildState' = buildState]_vars

\* C16 amended: a request never changes the build state and never creates or
\* replaces the output route table; the one thing it does to the table is the
\* reload at its entry, which re-reads an existing table from outDir.
C16_RequestOnlyReloads ==
    [][\A r \in Requests : RequestStep(r) =>
          /\ buildState' = buildState
          /\ \/ fileRouter' = fileRouter
             \/ /\ reqs[r].pc = "new"
                /\ fileRouter # << >>
                /\ fileRouter' = createFileRouter]_vars

\* a request waited for a build, resumed and answered from an existing table
C16_Witness ==
    \E r \in Requests :
        /\ reqs[r].pc = "done"
        /\ reqs[r].waited
        /\ reqs[r].table # << >>
        /\ reqs[r].response # NoResponse

TablePathnames(router) ==
    IF router = << >> THEN {} ELSE { o.pathname : o \in router[1] }

\* the afterBuild hook of a rebuild ends in this transition (the startup pass
\* and its afterBuild hook completed before the rebuild started)
RebuildEnds ==
    /\ rebuild
    /\ afterBuildPc # "none"
    /\ afterBuildPc' = "none"

C19_ChainHoldsOnlyLayouts ==
    \A l \in loaded : \A i \in 1..Len(l.result.layouts) :
        LET f == l.result.layouts[i]
            page == EntryFile(l.entry)
        IN  /\ IsLayoutFile(f)
            /\ IsUnder(f.dir, Cwd \o SrcDir)
            /\ IsUnder(page.dir, f.dir)

\* C20 as stated: in the entrypoint-tagging variant the one path value handed to
\* the page and to every layout of a route equals the route's pathname in the
\* source route table, for index and non-index pages alike.
C20_PathIsRoutePathname ==
    variant = 2 =>
        \A l \in loaded :
            l.result.loader = "html" => l.result.path = << l.result.pathname >>

\* serverStart.main or the afterBuild hook completes in this transition
MainOrAfterBuildCompletes ==
    \/ mainPc # "done" /\ mainPc' = "done"
    \/ afterBuildPc # "none" /\ afterBuildPc' = "none"

\* C21: once serverStart.main or afterBuild has completed, fileRouter is non-null
\* and stays non-null under every later build, afterBuild call and request; it
\* is null only before the first such completion.
C21_RouterSetOnceForAll ==
    [][/\ MainOrAfterBuildCompletes => fileRouter' # << >>
       /\ fileRouter # << >> => fileRouter' # << >>
       /\ (fileRouter = << >> /\ fileRouter' # << >>) => MainOrAfterBuildCompletes
      ]_vars

\* a request waits on a rebuild with the table of the startup pass in place
C21_Witness ==
    /\ rebuild
    /\ bundlePc = "bundling"
    /\ fileRouter # << >>
    /\ \E r \in Requests : reqs[r].pc = "waiting"

\* C22: one invocation of router.request calls setResponse at most once, in the
\* route-table branch or in the fallback branch and never in both, under every
\* interleaving with builds; an invocation that ended without a response of its
\* own called it not at all.
C22_ResponseSetAtMostOnce ==
    \A r \in Requests :
        /\ reqs[r].sets <= 1
        /\ reqs[r].sets = 1 =>
              /\ reqs[r].pc = "done"
              /\ reqs[r].response \notin {NoResponse, UpstreamResponse}
              /\ reqs[r].preventLog =>
                    reqs[r].response = FallbackResponse(UrlFilePath(reqs[r].url))
              /\ ~reqs[r].preventLog =>
                    /\ RouterMatch(reqs[r].table, reqs[r].url) # << >>
                    /\ reqs[r].response =
                          HtmlResponse(RouterMatch(reqs[r].table, reqs[r].url)[1])
        /\ (reqs[r].pc = "done" /\ reqs[r].sets = 0) =>
              reqs[r].response \in {NoResponse, UpstreamResponse}

\* variant 2 answered a request with a buffered output after a build that the
\* request had waited for
C22_Witness ==
    \E r \in Requests :
        /\ variant = 2
        /\ reqs[r].pc = "done"
        /\ reqs[r].waited
        /\ reqs[r].sets = 1
        /\ reqs[r].response # NoResponse
        /\ ~reqs[r].response[1].streamed

====
